---- MODULE Spec2Model ----
(***************************************************************************)
(* Model of the speech synthesis path of AudioOpt's VoiceCloner            *)
(* (src/AudioOpt/src/core/voice_cloner.py): synthesize_speech, the mel     *)
(* pre-conditioner (_normalize_mel_spectrogram, _control_length), the      *)
(* vocoder selector (_generate_audio), the vocoder strategies and the      *)
(* post-processor (_postprocess_audio).                                    *)
(*                                                                         *)
(* Specifications.  Spec is one synthesize_speech request.  SpecPost       *)
(* applies _postprocess_audio to buffers of every peak.  SpecFrame is the  *)
(* body of the phoneme-aware strategy's frame loop on one frame.  SpecRng  *)
(* is two requests on one VoiceCloner, seen through the random number      *)
(* generators they draw from.  SpecTrack is the two loops of the           *)
(* harmonic-tracking strategy over a few frames.  SpecData is              *)
(* collect_data_files and add_new_data on a dataset directory.             *)
(* SpecRecorder is AudioRecorder under the commands of the command thread  *)
(* and the steps of its recording thread.  SpecText is TextManager under   *)
(* the navigation commands, reloads and saved recordings.                  *)
(*                                                                         *)
(* Numbers.  Mel values are fixed-point integers in units of 1/FP          *)
(* (hundredths); divisions round towards minus infinity.  The three        *)
(* non-finite floats are the values NaN, PosInf and NegInf: PosInf and     *)
(* NegInf are ordered above and below every finite value, NaN is handled   *)
(* explicitly wherever the code compares or reduces.  Sample amplitudes    *)
(* are integers in units of 1/AMP (thousandths).                           *)
(***************************************************************************)
EXTENDS Integers, Sequences, FiniteSets, TLC

\* ---------------------------------------------------------------- constants
DEFAULT_HOP_LENGTH == 256
DEFAULT_N_MELS == 80
MIN_FRAME_LENGTH == 50
MEL_CLIP_MIN == -10
MEL_CLIP_MAX == 10
MEL_SCALE_MIN == -4
MEL_SCALE_MAX == 4
\* frames generated per token when a short output is extended
FRAMES_PER_TOKEN == 15

\* fixed-point resolution of mel values, and of sample amplitudes
FP == 100
AMP == 1000

\* the non-finite float values
PosInf == 900000
NegInf == -900000
NaN == 1000000

\* ------------------------------------------------------------------- bounds
\* short model outputs have 0..MaxShortFrames frames
MaxShortFrames == 2
\* long model outputs have MIN_FRAME_LENGTH..MIN_FRAME_LENGTH+MaxLongExtra frames
MaxLongExtra == 1
\* the text has 0 or MaxTokens tokens
MaxTokens == 4
\* largest magnitude (in 1/FP) of one draw of the extension's Gaussian noise
MaxNoise == 15
\* the bins of a matrix from a model whose n_mels is not DEFAULT_N_MELS
MismatchedMels == 40
\* _postprocess_audio on its own: peaks 0 .. MaxPeak (in 1/AMP), buffers of
\* 0 .. MaxBufLen samples, MaxPasses successive calls
MaxPeak == 1200
MaxBufLen == 2
MaxPasses == 2
\* one frame on its own: the first two bins of each band are moved apart by
\* 0 .. MaxTilt mel units
MaxTilt == 1
\* two requests: each global generator starts in one of the states
\* 0 .. MaxSeed
MaxSeed == 1
\* the F0 track on its own: matrices of 1 .. MaxTrackFrames frames
MaxTrackFrames == 3
\* the dataset: files numbered 1 .. MaxFileNumber before add_new_data
MaxFileNumber == 3
\* the recorder: the input stream delivers at most MaxChunks chunks
MaxChunks == 3
\* the script: a script file has at most MaxLines lines
MaxLines == 3

VARIABLES
    pc,             \* position of the request inside synthesize_speech
    modelLoaded,    \* self.model is not None
    hasPhonemeData, \* result of _check_phoneme_training_data
    tokens,         \* len(text_sequence)
    rawMel,         \* mel_outputs as returned by the model
    normMel,        \* mel_outputs after _normalize_mel_spectrogram
    mel,            \* the current mel_outputs / mel_spec
    idx,            \* position of the selector's loop in vocoder_methods
    attempted,      \* strategies called so far, in call order
    failedLog,      \* strategies whose try block raised, in order
    stubbed,        \* TRUE once a strategy was replaced by a stub output
    rawOut,         \* what the producing strategy returned (before _postprocess_audio)
    audio,          \* the buffer returned by _generate_audio
    producer,       \* who produced audio: a strategy, "fallback" or "none"
    raised,         \* the function an exception escaped from, or "none"
    result,         \* return value of synthesize_speech: "none", "true", "false"
    saved,          \* TRUE once _save_audio has written the file
    \* --- _postprocess_audio applied on its own (SpecPost)
    ppIn,           \* the buffer handed to the first pass
    ppOuts,         \* the buffers returned by the passes made so far
    ppRaised,       \* TRUE once a pass raised
    \* --- one frame of the phoneme-aware strategy (SpecFrame)
    fPc,            \* "idle", "typed", "done"
    fBands,         \* the band means the frame was built from, and its tilt
    fFrame,         \* frame_mel
    fType,          \* phoneme_type, "none" before it is known
    fGiven,         \* TRUE when phoneme_type did not come from the classifier
    fAudio,         \* what the frame loop's body put into the frame
    \* --- two requests and the process-wide generators (SpecRng)
    rqIn,           \* per request: frames of the model output, producing
                    \* strategy, category of its sounding frames
    rqPc,           \* per request: "control", "vocode", "done"
    rqDrawn,        \* per request: the random values that went into its buffer
    rng,            \* state of torch's and numpy's global generators
    rngSeed,        \* their state when the requests began
    rngUsers,       \* per generator, the requests that advanced it
    \* --- the F0 track of the harmonic-tracking strategy (SpecTrack)
    tkKinds,        \* per frame, the profile of its bins: Unvoiced, Beyond or a peak bin
    tkMel,          \* mel_np, the matrix the strategy reads
    tkF0,           \* f0[0 .. i-1], the track built so far
    tkSynth,        \* frames the synthesis loop has passed
    tkSounding,     \* frames that added samples to the buffer
    \* --- the dataset directories (SpecData)
    dsAudio,        \* audio_files: per number n, the content of audio_<n>.wav, "none" if absent
    dsMeta,         \* meta_files: per <<prefix, n>>, the content of <prefix>_<n>.txt
    dsPc,           \* "start", "collected", "added", "recollected"
    dsPairs,        \* what collect_data_files returned last
    dsBefore,       \* the directories and the pairs before add_new_data
    dsAdd,          \* outcome of add_new_data: "none", "ok", "failed"
    \* --- the recording tool (SpecRecorder)
    is_recording,   \* AudioRecorder.is_recording
    is_paused,      \* AudioRecorder.is_paused
    should_stop,    \* AudioRecorder.should_stop
    recorded_data,  \* AudioRecorder.recorded_data: the chunks kept, by number
    recording_thread,\* "none", "alive", "ended"
    chunks,         \* chunks the input stream has delivered so far
    command,   \* the last command the command thread issued
    stopped_audio,  \* what the last stop_recording returned: "none", None or the chunks
    \* --- the script of the recording tool (SpecText)
    filename,       \* TextManager.filename, "None" before a file is loaded
    all_texts,      \* TextManager.all_texts: line_number, recorded, audio_filename (n for audio_<n:04d>.wav, 0 for None)
    current_index,  \* TextManager.current_index
    session_file    \* the content of data/session.json; exists is FALSE while there is none

synthVars == <<pc, modelLoaded, hasPhonemeData, tokens, rawMel, normMel, mel, idx,
               attempted, failedLog, stubbed, rawOut, audio, producer, raised, result,
               saved>>
postVars == <<ppIn, ppOuts, ppRaised>>
frameVars == <<fPc, fBands, fFrame, fType, fGiven, fAudio>>

rngVars == <<rqIn, rqPc, rqDrawn, rng, rngSeed, rngUsers>>

trackVars == <<tkKinds, tkMel, tkF0, tkSynth, tkSounding>>

dataVars == <<dsAudio, dsMeta, dsPc, dsPairs, dsBefore, dsAdd>>

recorderVars == <<is_recording, is_paused, should_stop, recorded_data, recording_thread, chunks, command, stopped_audio>>

textVars == <<filename, all_texts, current_index, session_file>>

vars == <<synthVars, postVars, frameVars, rngVars, trackVars, dataVars, recorderVars, textVars>>

\* the variables a synthesize_speech request, a call of _postprocess_audio
\* a frame of the phoneme-aware strategy and the pair of requests leave alone
notSynthVars == <<postVars, frameVars, rngVars, trackVars, dataVars, recorderVars, textVars>>
notPostVars == <<synthVars, frameVars, rngVars, trackVars, dataVars, recorderVars, textVars>>
notFrameVars == <<synthVars, postVars, rngVars, trackVars, dataVars, recorderVars, textVars>>
notRngVars == <<synthVars, postVars, frameVars, trackVars, dataVars, recorderVars, textVars>>
notTrackVars == <<synthVars, postVars, frameVars, rngVars, dataVars, recorderVars, textVars>>
notDataVars == <<synthVars, postVars, frameVars, rngVars, trackVars, recorderVars, textVars>>
notRecorderVars == <<synthVars, postVars, frameVars, rngVars, trackVars, dataVars, textVars>>
notTextVars == <<synthVars, postVars, frameVars, rngVars, trackVars, dataVars, recorderVars>>

\* ------------------------------------------------------------ float helpers
IsNaN(x) == x = NaN
IsInf(x) == x = PosInf \/ x = NegInf
IsFinite(x) == ~IsNaN(x) /\ ~IsInf(x)

Min2(a, b) == IF a < b THEN a ELSE b
Max2(a, b) == IF a > b THEN a ELSE b

\* torch.clamp on one element: NaN stays NaN, everything else is clipped
Clamp(x, lo, hi) == IF IsNaN(x) THEN NaN ELSE Max2(lo, Min2(x, hi))

\* --------------------------------------------------------------- matrices
\* A matrix is [nf |-> rows, nm |-> columns, v |-> <<row_1, ..., row_nf>>].
Matrix(n, m, rows) == [nf |-> n, nm |-> m, v |-> rows]

Entries(M) == {M.v[i][j] : i \in 1..M.nf, j \in 1..M.nm}

\* mel_spec.T
Transpose(M) ==
    Matrix(M.nm, M.nf, [j \in 1..M.nm |-> [i \in 1..M.nf |-> M.v[i][j]]])

SetMin(S) == CHOOSE x \in S : \A y \in S : x <= y
SetMax(S) == CHOOSE x \in S : \A y \in S : x >= y

\* Tensor.min() / Tensor.max() over a non-empty tensor: NaN propagates
TensorMin(M) == IF NaN \in Entries(M) THEN NaN ELSE SetMin(Entries(M))
TensorMax(M) == IF NaN \in Entries(M) THEN NaN ELSE SetMax(Entries(M))

\* --------------------------------------------------------- pre-conditioner
\* _normalize_mel_spectrogram raises exactly when min()/max() reduce an
\* empty tensor.
NormalizeRaises(M) == M.nf * M.nm = 0

\* torch.nan_to_num(x, nan=0.0, posinf=MEL_SCALE_MAX, neginf=MEL_SCALE_MIN)
NanToNum(x) ==
    IF IsNaN(x) THEN 0
    ELSE IF x = PosInf THEN MEL_SCALE_MAX * FP
    ELSE IF x = NegInf THEN MEL_SCALE_MIN * FP
    ELSE x

NormalizeMelSpectrogram(M) ==
    LET mel_clipped ==
            Matrix(M.nf, M.nm,
                   [i \in 1..M.nf |-> [j \in 1..M.nm |->
                       Clamp(M.v[i][j], MEL_CLIP_MIN * FP, MEL_CLIP_MAX * FP)]])
        mel_min == TensorMin(mel_clipped)
        mel_max == TensorMax(mel_clipped)
        Rescale(x) ==
            ((x - mel_min) * (MEL_SCALE_MAX - MEL_SCALE_MIN) * FP) \div (mel_max - mel_min)
                + MEL_SCALE_MIN * FP
        mel_normalized ==
            IF ~IsNaN(mel_max) /\ ~IsNaN(mel_min) /\ mel_max > mel_min
            THEN Matrix(M.nf, M.nm,
                        [i \in 1..M.nf |-> [j \in 1..M.nm |-> Rescale(mel_clipped.v[i][j])]])
            ELSE mel_clipped
    IN  IF \E x \in Entries(mel_normalized) : IsNaN(x) \/ IsInf(x)
        THEN Matrix(M.nf, M.nm,
                    [i \in 1..M.nf |-> [j \in 1..M.nm |-> NanToNum(mel_normalized.v[i][j])]])
        ELSE mel_normalized

\* torch.linspace(1.0, 0.8, repeat_count)[i], i = 0..repeat_count-1, in 1/AMP
DecayFactor(i, repeat_count) ==
    IF repeat_count = 1 THEN AMP
    ELSE AMP - ((AMP - (8 * AMP) \div 10) * i) \div (repeat_count - 1)

\* One draw of torch.randn_like(...) * 0.05: entry (i, j) of the padding gets
\* +a or -a, a being the magnitude drawn for this call.
Noise(a, i, j) == IF (i + j) % 2 = 0 THEN a ELSE -a

\* mutant: the extension ignores the token count
ControlLengthToMinimum(M, n_tokens, a) ==
    IF M.nf < MIN_FRAME_LENGTH
    THEN LET last_frame == M.v[M.nf]
             repeat_count == MIN_FRAME_LENGTH - M.nf
         IN  Matrix(MIN_FRAME_LENGTH, M.nm,
                    M.v \o [i \in 1..repeat_count |-> [j \in 1..M.nm |-> last_frame[j]]])
    ELSE M

\* _control_length raises when the last-frame slice of an empty matrix is
\* broadcast against the decay factor.
ControlLengthRaises(M) == M.nf = 0

ControlLength(M, n_tokens, a) ==
    IF M.nf < MIN_FRAME_LENGTH
    THEN LET target_length == Max2(MIN_FRAME_LENGTH, n_tokens * FRAMES_PER_TOKEN)
             last_frame == M.v[M.nf]
             repeat_count == target_length - M.nf
             padding == [i \in 1..repeat_count |->
                            [j \in 1..M.nm |->
                                (last_frame[j] * DecayFactor(i - 1, repeat_count)) \div AMP
                                    + Noise(a, i, j)]]
         IN  Matrix(M.nf + repeat_count, M.nm, M.v \o padding)
    ELSE M

\* ------------------------------------------------------------- audio buffers
\* A buffer is abstracted to its length in samples, its peak max|sample| in
\* 1/AMP, and whether its samples are NaN.  For a strategy's output the peak is
\* the level the strategy normalizes to; its smoothing and fades only attenuate.
Buffer(n, p, isnan) == [len |-> n, peak |-> p, nan |-> isnan]
NoBuffer == Buffer(0, 0, FALSE)

\* self.preprocessor.sample_rate
SAMPLE_RATE == 22050

\* exp(k) * 10^6 for k = -12 .. 0
ExpTable == <<6, 17, 45, 123, 335, 912, 2479, 6738, 18316, 49787, 135335, 367879, 1000000>>

\* np.exp(x) in millionths, saturated at 1.0: the energy gates compare a mean
\* over fewer than 100 bins with at most 0.01, so one bin at 1.0 already passes.
\* Between integers the table is interpolated linearly.
ExpMicro(x) ==
    IF x >= 0 THEN ExpTable[13]
    ELSE IF x < -12 * FP THEN 0
    ELSE LET k == x \div FP
             f == x - k * FP
         IN  ExpTable[k + 13] + ((ExpTable[k + 14] - ExpTable[k + 13]) * f) \div FP

\* the sum of np.exp over frame[a..b], 1-based and inclusive
RECURSIVE SumExpRange(_, _, _)
SumExpRange(frame, a, b) ==
    IF a > b THEN 0
    ELSE IF a = b THEN ExpMicro(frame[a])
    ELSE LET m == (a + b) \div 2
         IN  SumExpRange(frame, a, m) + SumExpRange(frame, m + 1, b)

SumExp(frame, n) == SumExpRange(frame, 1, n)

\* np.mean(np.exp(frame_mel)) > gate, gate in thousandths; the mean of an
\* empty frame is NaN and passes no gate
EnergyAbove(frame, n_mels, gate) ==
    n_mels > 0 /\ SumExp(frame, n_mels) > gate * 1000 * n_mels

\* mel_spec.T.numpy() if mel_spec.shape[1] == DEFAULT_N_MELS else mel_spec.numpy()
OrientMel(mel_spec) ==
    IF mel_spec.nm = DEFAULT_N_MELS THEN Transpose(mel_spec) ELSE mel_spec

\* ------------------------------------------- one frame of the phoneme-aware
\* strategy
\* japanese_phonemes: key, formants in Hz, f0_mod in hundredths, articulation
\* flags (the 'energy' entry is read nowhere)
japanese_phonemes == <<
    <<"a", <<730, 1090, 2440>>, 100, {}>>,
    <<"i", <<270, 2290, 3010>>, 110, {}>>,
    <<"u", <<300, 870, 2240>>, 90, {}>>,
    <<"e", <<530, 1840, 2480>>, 100, {}>>,
    <<"o", <<570, 840, 2410>>, 95, {}>>,
    <<"ka", <<730, 1200, 2400>>, 100, {"burst"}>>,
    <<"ki", <<270, 2400, 3100>>, 110, {"burst"}>>,
    <<"ku", <<300, 900, 2200>>, 90, {"burst"}>>,
    <<"ke", <<530, 1900, 2500>>, 100, {"burst"}>>,
    <<"ko", <<570, 900, 2400>>, 95, {"burst"}>>,
    <<"sa", <<730, 1200, 2600>>, 100, {"fricative"}>>,
    <<"shi", <<300, 2200, 3200>>, 110, {"fricative"}>>,
    <<"su", <<300, 900, 2400>>, 90, {"fricative"}>>,
    <<"se", <<530, 1900, 2600>>, 100, {"fricative"}>>,
    <<"so", <<570, 900, 2500>>, 95, {"fricative"}>>,
    <<"ta", <<730, 1200, 2400>>, 100, {"plosive"}>>,
    <<"chi", <<300, 2100, 3000>>, 110, {"plosive"}>>,
    <<"tsu", <<300, 900, 2300>>, 90, {"plosive"}>>,
    <<"te", <<530, 1800, 2500>>, 100, {"plosive"}>>,
    <<"to", <<570, 900, 2400>>, 95, {"plosive"}>>,
    <<"na", <<730, 1200, 2400>>, 100, {"nasal"}>>,
    <<"ni", <<270, 2200, 3000>>, 110, {"nasal"}>>,
    <<"nu", <<300, 900, 2200>>, 90, {"nasal"}>>,
    <<"ne", <<530, 1800, 2500>>, 100, {"nasal"}>>,
    <<"no", <<570, 900, 2400>>, 95, {"nasal"}>>,
    <<"ha", <<730, 1200, 2400>>, 100, {"breath"}>>,
    <<"hi", <<270, 2200, 3100>>, 110, {"breath"}>>,
    <<"fu", <<300, 900, 2200>>, 90, {"breath"}>>,
    <<"he", <<530, 1800, 2500>>, 100, {"breath"}>>,
    <<"ho", <<570, 900, 2400>>, 95, {"breath"}>>,
    <<"ma", <<730, 1200, 2400>>, 100, {"nasal"}>>,
    <<"mi", <<270, 2200, 3000>>, 110, {"nasal"}>>,
    <<"mu", <<300, 900, 2200>>, 90, {"nasal"}>>,
    <<"me", <<530, 1800, 2500>>, 100, {"nasal"}>>,
    <<"mo", <<570, 900, 2400>>, 95, {"nasal"}>>,
    <<"ya", <<730, 1200, 2400>>, 100, {"glide"}>>,
    <<"yu", <<300, 900, 2200>>, 90, {"glide"}>>,
    <<"yo", <<570, 900, 2400>>, 95, {"glide"}>>,
    <<"ra", <<730, 1300, 2400>>, 100, {"liquid"}>>,
    <<"ri", <<270, 2300, 3000>>, 110, {"liquid"}>>,
    <<"ru", <<300, 1000, 2200>>, 90, {"liquid"}>>,
    <<"re", <<530, 1900, 2500>>, 100, {"liquid"}>>,
    <<"ro", <<570, 1000, 2400>>, 95, {"liquid"}>>,
    <<"wa", <<730, 1200, 2400>>, 100, {"glide"}>>,
    <<"wo", <<570, 900, 2400>>, 95, {"glide"}>>,
    <<"n", <<400, 1200, 2400>>, 80, {"nasal"}>>
>>

PhonemeKeys == {japanese_phonemes[i][1] : i \in 1..Len(japanese_phonemes)}

\* japanese_phonemes[key]
PhonemeEntry(key) ==
    LET row == japanese_phonemes[CHOOSE i \in 1..Len(japanese_phonemes) :
                                     japanese_phonemes[i][1] = key]
    IN  [formants |-> row[2], f0_mod |-> row[3], flags |-> row[4]]

\* mutant: every frame is synthesized with the entry of 'a'
PhonemeDataAlwaysDefault(phoneme_type) == PhonemeEntry("a")

\* japanese_phonemes.get(phoneme_type, japanese_phonemes['a'])
PhonemeData(phoneme_type) ==
    IF phoneme_type \in PhonemeKeys THEN PhonemeEntry(phoneme_type)
    ELSE PhonemeEntry("a")

\* the sum of frame[a..b], 1-based and inclusive
RECURSIVE SumRange(_, _, _)
SumRange(frame, a, b) ==
    IF a > b THEN 0
    ELSE IF a = b THEN frame[a]
    ELSE LET m == (a + b) \div 2
         IN  SumRange(frame, a, m) + SumRange(frame, m + 1, b)

\* np.mean(x) > np.mean(y) for slices given by sum and length: the mean of an
\* empty slice is NaN, and a comparison with NaN is false
MeanGreater(sx, nx, sy, ny) == nx > 0 /\ ny > 0 /\ sx * ny > sy * nx

\* np.mean(x) > c and np.mean(x) < c, c in mel units
MeanAbove(sx, nx, c) == nx > 0 /\ sx > c * FP * nx
MeanBelow(sx, nx, c) == nx > 0 /\ sx < c * FP * nx

\* mutant: a band that only equals another still counts as the dominant one
EstimatePhonemeTypeTies(frame_mel, n) ==
    LET n_low == Min2(15, n)
        n_mid == Max2(0, Min2(40, n) - 15)
        n_high == Max2(0, n - 40)
        low == SumRange(frame_mel, 1, n_low)
        mid == SumRange(frame_mel, 16, Min2(40, n))
        high == SumRange(frame_mel, 41, n)
    IN  IF ~MeanGreater(mid, n_mid, high, n_high) /\ ~MeanGreater(low, n_low, high, n_high)
        THEN IF MeanGreater(mid, n_mid, low, n_low) THEN "i" ELSE "shi"
        ELSE IF MeanGreater(low, n_low, mid, n_mid) /\ MeanGreater(low, n_low, high, n_high)
        THEN IF MeanBelow(mid, n_mid, -30) THEN "u" ELSE "o"
        ELSE IF MeanGreater(mid, n_mid, low, n_low) /\ MeanGreater(mid, n_mid, high, n_high)
        THEN "e"
        ELSE "a"

\* mutant: the default category is the moraic nasal 'n'
EstimatePhonemeTypeNasalDefault(frame_mel, n) ==
    LET n_low == Min2(15, n)
        n_mid == Max2(0, Min2(40, n) - 15)
        n_high == Max2(0, n - 40)
        low == SumRange(frame_mel, 1, n_low)
        mid == SumRange(frame_mel, 16, Min2(40, n))
        high == SumRange(frame_mel, 41, n)
    IN  IF MeanGreater(high, n_high, mid, n_mid) /\ MeanGreater(high, n_high, low, n_low)
        THEN IF MeanGreater(mid, n_mid, low, n_low) THEN "i" ELSE "shi"
        ELSE IF MeanGreater(low, n_low, mid, n_mid) /\ MeanGreater(low, n_low, high, n_high)
        THEN IF MeanBelow(mid, n_mid, -30) THEN "u" ELSE "o"
        ELSE IF MeanGreater(mid, n_mid, low, n_low) /\ MeanGreater(mid, n_mid, high, n_high)
        THEN "e"
        ELSE "n"

\* _estimate_phoneme_type on a frame of n values: low = frame[:15],
\* mid = frame[15:40], high = frame[40:]
EstimatePhonemeType(frame_mel, n) ==
    LET n_low == Min2(15, n)
        n_mid == Max2(0, Min2(40, n) - 15)
        n_high == Max2(0, n - 40)
        low == SumRange(frame_mel, 1, n_low)
        mid == SumRange(frame_mel, 16, Min2(40, n))
        high == SumRange(frame_mel, 41, n)
    IN  IF MeanGreater(high, n_high, mid, n_mid) /\ MeanGreater(high, n_high, low, n_low)
        THEN IF MeanGreater(mid, n_mid, low, n_low) THEN "i" ELSE "shi"
        ELSE IF MeanGreater(low, n_low, mid, n_mid) /\ MeanGreater(low, n_low, high, n_high)
        THEN IF MeanBelow(mid, n_mid, -30) THEN "u" ELSE "o"
        ELSE IF MeanGreater(mid, n_mid, low, n_low) /\ MeanGreater(mid, n_mid, high, n_high)
        THEN "e"
        ELSE "a"

\* f0 = np.clip(140 * f0_mod * (1 + np.mean(frame_mel[:12]) / 8), 70, 350),
\* in 1/FP Hz; np.clip keeps a NaN
FrameF0(frame_mel, n, f0_mod) ==
    LET n12 == Min2(12, n)
        s12 == SumRange(frame_mel, 1, n12)
    IN  IF n12 = 0 THEN NaN
        ELSE Clamp((140 * f0_mod * (8 * n12 * FP + s12)) \div (8 * n12 * 100),
                   70 * FP, 350 * FP)

\* _synthesize_formants: the formants that get a tone, each read at bin
\* min(int(f * n_mels / (sample_rate / 2)), n_mels - 1) and audible above -35
FormantTones(formants, frame_mel, n_mels) ==
    {k \in 1..Len(formants) :
        /\ 2 * formants[k] < SAMPLE_RATE
        /\ LET mel_bin == Min2((formants[k] * n_mels * 2) \div SAMPLE_RATE, n_mels - 1)
           IN  frame_mel[mel_bin + 1] > -35 * FP}

\* mutant: the plosive rows get the burst noise as well
TextureGeneratorsPlosive(flags) ==
    IF "burst" \in flags \/ "plosive" \in flags THEN {"burst"}
    ELSE IF "fricative" \in flags THEN {"fricative"}
    ELSE IF "nasal" \in flags THEN {"nasal"}
    ELSE IF "breath" \in flags THEN {"breath"}
    ELSE {}

\* the if / elif chain on phoneme_data.get('burst'), 'fricative', 'nasal',
\* 'breath': the generators that are called for a frame
TextureGenerators(flags) ==
    IF "burst" \in flags THEN {"burst"}
    ELSE IF "fricative" \in flags THEN {"fricative"}
    ELSE IF "nasal" \in flags THEN {"nasal"}
    ELSE IF "breath" \in flags THEN {"breath"}
    ELSE {}

\* whether a called generator returns anything but zeros: _add_burst_noise
\* needs mean(frame_mel[20:40]) > -30, _add_fricative_noise
\* mean(frame_mel[30:]) > -35, _add_nasal_resonance f0 > 0 (false for NaN),
\* _add_breath_noise mean(frame_mel) > -30
TextureSounds(generator, frame_mel, n, f0) ==
    CASE generator = "burst" ->
            MeanAbove(SumRange(frame_mel, 21, Min2(40, n)), Max2(0, Min2(40, n) - 20), -30)
      [] generator = "fricative" ->
            MeanAbove(SumRange(frame_mel, 31, n), Max2(0, n - 30), -35)
      [] generator = "nasal" -> ~IsNaN(f0) /\ f0 > 0
      [] generator = "breath" -> MeanAbove(SumRange(frame_mel, 1, n), n, -30)

\* the draws of np.random.random a called generator makes
TextureIsRandom(generator) == generator \in {"burst", "fricative", "breath"}

NoFrameAudio == [formants |-> << >>, f0 |-> 0, tones |-> {}, textures |-> {}, sounding |-> {}]

\* the body of the frame loop for a frame that passed the energy gate
FrameAudio(frame_mel, n_mels, phoneme_type) ==
    LET phoneme_data == PhonemeData(phoneme_type)
        f0 == FrameF0(frame_mel, n_mels, phoneme_data.f0_mod)
        called == TextureGenerators(phoneme_data.flags)
    IN  [formants |-> phoneme_data.formants,
         f0 |-> f0,
         tones |-> FormantTones(phoneme_data.formants, frame_mel, n_mels),
         textures |-> called,
         sounding |-> {g \in called : TextureSounds(g, frame_mel, n_mels, f0)}]

\* ------------------------------------------------------------ the strategies
\* _postprocess_japanese_audio: a silent buffer is left alone, any other is
\* normalized to 0.35, smoothed and faded
PostprocessJapaneseAudio(b) ==
    IF b.peak > 0 THEN Buffer(b.len, (35 * AMP) \div 100, FALSE) ELSE b

\* _japanese_phoneme_vocoder: a frame gets formants and harmonics, all of
\* positive amplitude, exactly when its energy passes the 0.005 gate
JapanesePhonemeVocoder(mel_spec) ==
    LET mel_np == OrientMel(mel_spec)
        n_frames == mel_np.nf
        n_mels == mel_np.nm
        audio_length == n_frames * DEFAULT_HOP_LENGTH
        sounding == \E i \in 1..n_frames : EnergyAbove(mel_np.v[i], n_mels, 5)
    IN  PostprocessJapaneseAudio(Buffer(audio_length, IF sounding THEN AMP ELSE 0, FALSE))

\* _reliable_vocoder: three harmonics of positive amplitude for every frame
\* whose energy passes the 0.01 gate, normalized to 0.3 and smoothed
ReliableVocoder(mel_spec) ==
    LET mel_np == OrientMel(mel_spec)
        n_frames == mel_np.nf
        n_mels == mel_np.nm
        audio_length == n_frames * DEFAULT_HOP_LENGTH
        sounding == \E i \in 1..n_frames : EnergyAbove(mel_np.v[i], n_mels, 10)
    IN  Buffer(audio_length, IF sounding THEN (3 * AMP) \div 10 ELSE 0, FALSE)

\* np.argmax over the first n entries: 0-based index of the first maximum
ArgMax(frame, n) ==
    LET mx == SetMax({frame[j] : j \in 1..n})
    IN  (CHOOSE j \in 1..n : frame[j] = mx /\ \A k \in 1..(j - 1) : frame[k] # mx) - 1

\* mutant: a jump is measured against the previous frame's raw estimate
F0StepRawJump(mel_np, i, before) ==
    LET n_low == Min2(30, mel_np.nm)
        low_freq_power == mel_np.v[i]
        raw == (80 + ArgMax(low_freq_power, n_low) * 8) * FP
        prev_raw == IF i > 1
                    THEN (80 + ArgMax(mel_np.v[i - 1], n_low) * 8) * FP
                    ELSE 0
    IN  IF SetMax({low_freq_power[j] : j \in 1..n_low}) > -35 * FP
        THEN IF i > 1 /\ before > 0
                /\ (raw - prev_raw > 50 * FP \/ prev_raw - raw > 50 * FP)
             THEN (raw + before) \div 2
             ELSE raw
        ELSE 0

\* one iteration of the F0 loop of _improved_vocoder, in 1/FP Hz: f0[i] of
\* frame i, given before = f0[i - 1] as stored (0 for the first frame)
F0Step(mel_np, i, before) ==
    LET n_low == Min2(30, mel_np.nm)
        low_freq_power == mel_np.v[i]
        raw == (80 + ArgMax(low_freq_power, n_low) * 8) * FP
    IN  IF SetMax({low_freq_power[j] : j \in 1..n_low}) > -35 * FP
        THEN IF i > 1 /\ before > 0
                /\ (raw - before > 50 * FP \/ before - raw > 50 * FP)
             THEN (raw + before) \div 2
             ELSE raw
        ELSE 0

\* the iterations lo..hi of that loop, entered with f0[lo - 1] = before: the
\* first half of the range, then the second half from where the first ended
RECURSIVE F0Frames(_, _, _, _)
F0Frames(mel_np, lo, hi, before) ==
    IF lo > hi THEN << >>
    ELSE IF lo = hi THEN <<F0Step(mel_np, lo, before)>>
    ELSE LET mid == (lo + hi) \div 2
             first == F0Frames(mel_np, lo, mid, before)
         IN  first \o F0Frames(mel_np, mid + 1, hi, first[Len(first)])

\* the F0 track of _improved_vocoder over the frames 1..i
F0Track(mel_np, i) == F0Frames(mel_np, 1, i, 0)

\* the harmonics 1..7 of a frame with fundamental f0 (in 1/FP Hz) that add a
\* sine: below Nyquist, and the magnitude of their bin above -45
SoundingHarmonics(frame, n_mels, f0) ==
    {harmonic \in 1..7 :
        LET freq == f0 * harmonic
            freq_bin == Min2((freq * n_mels * 2) \div (SAMPLE_RATE * FP), n_mels - 1)
        IN  f0 > 0 /\ 2 * freq < SAMPLE_RATE * FP /\ frame[freq_bin + 1] > -45 * FP}

\* _improved_vocoder raises when np.max reduces an empty low band
ImprovedVocoderRaises(mel_spec) ==
    LET mel_np == OrientMel(mel_spec) IN mel_np.nf > 0 /\ mel_np.nm = 0

\* _improved_vocoder: a voiced frame adds each harmonic below Nyquist whose
\* bin magnitude exceeds -45; the result is normalized to 0.7 and faded
ImprovedVocoder(mel_spec) ==
    LET mel_np == OrientMel(mel_spec)
        audio_length == mel_np.nf * DEFAULT_HOP_LENGTH
        f0 == F0Track(mel_np, mel_np.nf)
        sounding == \E i \in 1..mel_np.nf :
                        SoundingHarmonics(mel_np.v[i], mel_np.nm, f0[i]) # {}
    IN  Buffer(audio_length, IF sounding THEN (7 * AMP) \div 10 ELSE 0, FALSE)

\* _simple_vocoder: every bin above -40 is an oscillator; normalized to 0.8.
\* It reads the matrix as it is, frames along the first axis.
SimpleVocoder(mel_spec) ==
    LET audio_length == mel_spec.nf * DEFAULT_HOP_LENGTH
        sounding == \E x \in Entries(mel_spec) : x > -40 * FP
    IN  Buffer(audio_length, IF sounding THEN (8 * AMP) \div 10 ELSE 0, FALSE)

\* mutant: the class defines the two helpers
TrainedPhonemeVocoderHelpersDefined(mel_spec) == FALSE

\* _trained_phoneme_vocoder calls _load_measured_phoneme_features, which the
\* class does not define: every call raises AttributeError
TrainedPhonemeVocoderRaises(mel_spec) == TRUE

\* vocoder_func(mel_spec): [raises, buf]
RunVocoder(name, mel_spec) ==
    CASE name = "trained"  ->
            \* past the helpers it would synthesize as _japanese_phoneme_vocoder
            \* does, with measured formants
            IF TrainedPhonemeVocoderRaises(mel_spec)
            THEN [raises |-> TRUE, buf |-> NoBuffer]
            ELSE [raises |-> FALSE, buf |-> JapanesePhonemeVocoder(mel_spec)]
      [] name = "japanese" -> [raises |-> FALSE, buf |-> JapanesePhonemeVocoder(mel_spec)]
      [] name = "reliable" -> [raises |-> FALSE, buf |-> ReliableVocoder(mel_spec)]
      [] name = "improved" ->
            IF ImprovedVocoderRaises(mel_spec)
            THEN [raises |-> TRUE, buf |-> NoBuffer]
            ELSE [raises |-> FALSE, buf |-> ImprovedVocoder(mel_spec)]

\* ------------------------------------------------- selector, post-processor
\* mutant: the trained strategy is tried after the untrained one
VocoderMethodsTrainedSecond(has_phoneme_data) ==
    IF has_phoneme_data
    THEN <<"japanese", "trained", "reliable">>
    ELSE <<"japanese", "reliable", "improved">>

\* the strategy order of _generate_audio
VocoderMethods(has_phoneme_data) ==
    IF has_phoneme_data
    THEN <<"trained", "japanese", "reliable">>
    ELSE <<"japanese", "reliable", "improved">>

\* torch.max(torch.abs(audio)) raises on an empty tensor
PostprocessAudioRaises(b) == b.len = 0

\* mutant: a near-silent buffer is scaled to a peak of 5.0
PostprocessAudioBoost(b) ==
    IF b.nan THEN b
    ELSE IF b.peak > AMP THEN Buffer(b.len, (8 * AMP) \div 10, FALSE)
    ELSE IF b.peak < AMP \div 100
         THEN IF b.peak = 0 THEN Buffer(b.len, 0, TRUE)
              ELSE Buffer(b.len, 5 * AMP, FALSE)
    ELSE b

\* _postprocess_audio: comparisons with a NaN peak are false; a peak of
\* exactly 0 is below 0.01 and is divided by: 0/0 makes every sample NaN
PostprocessAudio(b) ==
    IF b.nan THEN b
    ELSE IF b.peak > AMP THEN Buffer(b.len, (8 * AMP) \div 10, FALSE)
    ELSE IF b.peak < AMP \div 100
         THEN IF b.peak = 0 THEN Buffer(b.len, 0, TRUE)
              ELSE Buffer(b.len, (5 * AMP) \div 10, FALSE)
    ELSE b

\* mutant: the strategy's buffer is returned as it is
SelectorReturnRaw(b) == b

\* return self._postprocess_audio(audio)
SelectorReturn(b) == PostprocessAudio(b)

\* mutant: the duration in seconds is taken for the sample count
FallbackLengthsInSeconds(n_frames) ==
    {(n_frames * DEFAULT_HOP_LENGTH) \div SAMPLE_RATE}

\* the lengths int(duration * sample_rate) can take, duration being
\* n_frames * hop / sample_rate in floating point: the product rounds to the
\* exact sample count or just below it
FallbackLengths(n_frames) ==
    LET exact == n_frames * DEFAULT_HOP_LENGTH
    IN  IF exact = 0 THEN {0} ELSE {exact - 1, exact}

\* 0.1 * sin(2 pi 200 t)
FallbackAudio(n) == Buffer(n, IF n > 0 THEN AMP \div 10 ELSE 0, FALSE)

\* -------------------------------------------------------------- the inputs
\* Frames the upstream model can emit, each given by the raw value of its low
\* (bins 0..14), mid (15..39) and high (40..) band.
FrameKinds ==
    { <<NaN, NaN, NaN>>,
      <<PosInf, PosInf, PosInf>>,
      <<NegInf, NegInf, NegInf>>,
      <<-20 * FP, -20 * FP, -20 * FP>>,
      <<0, 0, 0>>,
      <<3 * FP, -1 * FP, -6 * FP>> }

Frame(kind, n_mels) ==
    [j \in 1..n_mels |-> IF j <= 15 THEN kind[1] ELSE IF j <= 40 THEN kind[2] ELSE kind[3]]

FrameCounts ==
    (0..MaxShortFrames) \cup (MIN_FRAME_LENGTH..(MIN_FRAME_LENGTH + MaxLongExtra))

\* a model output of n frames by n_mels bins, the last frame of one kind, the
\* others of another
ModelOutput(n, n_mels, body, last) ==
    Matrix(n, n_mels, [i \in 1..n |-> Frame(IF i = n THEN last ELSE body, n_mels)])

\* what self.model.inference can return: matrices of DEFAULT_N_MELS bins,
\* and, from a model built with another n_mels, MIN_FRAME_LENGTH uniform
\* frames of MismatchedMels bins
ModelOutputs ==
    {ModelOutput(n, DEFAULT_N_MELS, body, last) :
        n \in FrameCounts, body \in FrameKinds, last \in FrameKinds}
    \cup {ModelOutput(MIN_FRAME_LENGTH, MismatchedMels, k, k) : k \in FrameKinds}

TokenCounts == {0, MaxTokens}

NoiseDraws == {0, MaxNoise}

\* what a call of a strategy can do: run its code, or be a stub that raises,
\* returns a NaN buffer, or returns an empty buffer
Faults == {"none", "raise", "nan", "empty"}

StubOutcome(fault, mel_spec) ==
    CASE fault = "raise" -> [raises |-> TRUE, buf |-> NoBuffer]
      [] fault = "nan"   -> [raises |-> FALSE,
                             buf |-> Buffer(mel_spec.nf * DEFAULT_HOP_LENGTH, 0, TRUE)]
      [] fault = "empty" -> [raises |-> FALSE, buf |-> NoBuffer]

NoMatrix == Matrix(0, 0, << >>)

\* ---------------------------------------------------------------- behaviour
\* mutant: the except clause swallows the exception and the request still
\* reports success
ReturnValueAlwaysTrue(step_raised) == "true"

\* what synthesize_speech returns from inside its try block: True at the end
\* of the block, False from the except clause
ReturnValue(step_raised) == IF step_raised THEN "false" ELSE "true"

SynthInit ==
    /\ pc = "idle"
    /\ modelLoaded \in BOOLEAN
    /\ hasPhonemeData = FALSE
    /\ tokens = 0
    /\ rawMel = NoMatrix
    /\ normMel = NoMatrix
    /\ mel = NoMatrix
    /\ idx = 0
    /\ attempted = << >>
    /\ failedLog = << >>
    /\ stubbed = FALSE
    /\ rawOut = NoBuffer
    /\ audio = NoBuffer
    /\ producer = "none"
    /\ raised = "none"
    /\ result = "none"
    /\ saved = FALSE

\* no buffer is being post-processed on its own
PostQuiet ==
    /\ ppIn = NoBuffer
    /\ ppOuts = << >>
    /\ ppRaised = FALSE

\* no frame is being synthesized on its own
FrameQuiet ==
    /\ fPc = "idle"
    /\ fBands = [low |-> 0, mid |-> 0, high |-> 0, tilt |-> 0]
    /\ fFrame = << >>
    /\ fType = "none"
    /\ fGiven = FALSE
    /\ fAudio = NoFrameAudio

\* no pair of requests is running
Requests == {1, 2}

RngQuiet ==
    /\ rqIn = [r \in Requests |-> [nf |-> 0, strategy |-> "none", category |-> "none"]]
    /\ rqPc = [r \in Requests |-> "done"]
    /\ rqDrawn = [r \in Requests |-> << >>]
    /\ rng = [torch |-> 0, numpy |-> 0]
    /\ rngSeed = rng
    /\ rngUsers = [torch |-> {}, numpy |-> {}]

\* no F0 track is being built
TrackQuiet ==
    /\ tkKinds = << >>
    /\ tkMel = Matrix(0, 0, << >>)
    /\ tkF0 = << >>
    /\ tkSynth = 0
    /\ tkSounding = {}

\* the numbers in file names, and the names a meta directory can hold:
\* meta_<n>.txt, which the recorder and add_new_data write, and audio_<n>.txt
FileNumbers == 1..(MaxFileNumber + 1)
MetaNames == {"meta", "audio"} \X FileNumbers

\* no dataset is being read
DataQuiet ==
    /\ dsAudio = [n \in FileNumbers |-> "none"]
    /\ dsMeta = [f \in MetaNames |-> "none"]
    /\ dsPc = "start"
    /\ dsPairs = << >>
    /\ dsBefore = [audio |-> dsAudio, meta |-> dsMeta, pairs |-> << >>]
    /\ dsAdd = "none"

\* no recorder is in use
RecorderQuiet ==
    /\ is_recording = FALSE
    /\ is_paused = FALSE
    /\ should_stop = FALSE
    /\ recorded_data = << >>
    /\ recording_thread = "none"
    /\ chunks = 0
    /\ command = "none"
    /\ stopped_audio = "none"

\* no script is loaded and no session was saved
TextQuiet ==
    /\ filename = "None"
    /\ all_texts = << >>
    /\ current_index = 0
    /\ session_file = [exists |-> FALSE, filename |-> "None", current_index |-> 0,
                       recorded_status |-> << >>]

Init == SynthInit /\ PostQuiet /\ FrameQuiet /\ RngQuiet /\ TrackQuiet /\ DataQuiet /\ RecorderQuiet /\ TextQuiet

\* synthesize_speech up to the model's inference: without a model it returns
\* False at once; otherwise the text is tokenized and the model emits frames,
\* unless _preprocess_text or the inference raises
SynthesizeSpeech ==
    /\ pc = "idle"
    /\ IF ~modelLoaded
       THEN /\ pc' = "done"
            /\ result' = "false"
            /\ UNCHANGED <<tokens, rawMel, mel, raised>>
       ELSE \/ /\ \E t \in TokenCounts, output \in ModelOutputs :
                   /\ tokens' = t
                   /\ rawMel' = output
                   /\ mel' = rawMel'
               /\ pc' = "normalize"
               /\ UNCHANGED <<raised, result>>
            \/ /\ raised' = "_generate_mel_spectrogram"
               /\ result' = ReturnValue(TRUE)
               /\ pc' = "done"
               /\ UNCHANGED <<tokens, rawMel, mel>>
    /\ UNCHANGED <<modelLoaded, hasPhonemeData, normMel, idx, attempted, failedLog,
                   stubbed, rawOut, audio, producer, saved>>
    /\ UNCHANGED notSynthVars

\* mel_outputs = self._normalize_mel_spectrogram(mel_outputs)
Normalize ==
    /\ pc = "normalize"
    /\ IF NormalizeRaises(mel)
       THEN /\ raised' = "_normalize_mel_spectrogram"
            /\ result' = ReturnValue(TRUE)
            /\ pc' = "done"
            /\ UNCHANGED <<mel, normMel>>
       ELSE /\ mel' = NormalizeMelSpectrogram(mel)
            /\ normMel' = mel'
            /\ pc' = "control"
            /\ UNCHANGED <<raised, result>>
    /\ UNCHANGED <<modelLoaded, hasPhonemeData, tokens, rawMel, idx, attempted,
                   failedLog, stubbed, rawOut, audio, producer>>
    /\ UNCHANGED <<saved, notSynthVars>>

\* mel_outputs = self._control_length(mel_outputs, text_tensor)
ControlLengthStep ==
    /\ pc = "control"
    /\ IF mel.nf < MIN_FRAME_LENGTH /\ ControlLengthRaises(mel)
       THEN /\ raised' = "_control_length"
            /\ result' = ReturnValue(TRUE)
            /\ pc' = "done"
            /\ UNCHANGED mel
       ELSE /\ \E a \in NoiseDraws : mel' = ControlLength(mel, tokens, a)
            /\ pc' = "generate"
            /\ UNCHANGED <<raised, result>>
    /\ UNCHANGED <<modelLoaded, hasPhonemeData, tokens, rawMel, normMel, idx, attempted,
                   failedLog, stubbed, rawOut, audio, producer>>
    /\ UNCHANGED <<saved, notSynthVars>>

\* _generate_mel_spectrogram has returned (its intermediate tensors are gone);
\* _generate_audio reads the capability flag from the dataset directory,
\* builds vocoder_methods and enters its loop
GenerateAudio ==
    /\ pc = "generate"
    /\ hasPhonemeData' \in BOOLEAN
    /\ idx' = 1
    /\ rawMel' = NoMatrix
    /\ normMel' = NoMatrix
    /\ pc' = "select"
    /\ UNCHANGED <<modelLoaded, tokens, mel, attempted, failedLog, stubbed, rawOut,
                   audio, producer, raised, result>>
    /\ UNCHANGED <<saved, notSynthVars>>

\* one iteration of the loop of _generate_audio: call the strategy and
\* post-process inside the try block; any exception moves on to the next
TryStrategy ==
    /\ pc = "select"
    /\ idx <= Len(VocoderMethods(hasPhonemeData))
    /\ LET vocoder_name == VocoderMethods(hasPhonemeData)[idx]
       IN  \E fault \in Faults :
             LET out == IF fault = "none" THEN RunVocoder(vocoder_name, mel)
                        ELSE StubOutcome(fault, mel)
             IN  /\ attempted' = Append(attempted, vocoder_name)
                 /\ stubbed' = (stubbed \/ fault # "none")
                 /\ IF out.raises \/ PostprocessAudioRaises(out.buf)
                    THEN /\ failedLog' = Append(failedLog, vocoder_name)
                         /\ idx' = idx + 1
                         /\ UNCHANGED <<pc, rawOut, audio, producer>>
                    ELSE /\ rawOut' = out.buf
                         /\ audio' = SelectorReturn(out.buf)
                         /\ producer' = vocoder_name
                         /\ pc' = "save"
                         /\ UNCHANGED <<failedLog, idx>>
    /\ UNCHANGED <<modelLoaded, hasPhonemeData, tokens, rawMel, normMel, mel,
                   raised, result>>
    /\ UNCHANGED <<saved, notSynthVars>>

\* the final fallback of _generate_audio, after the loop ran out of strategies
TerminalFallback ==
    /\ pc = "select"
    /\ idx > Len(VocoderMethods(hasPhonemeData))
    /\ \E n \in FallbackLengths(mel.nf) : audio' = FallbackAudio(n)
    /\ producer' = "fallback"
    /\ pc' = "save"
    /\ UNCHANGED <<modelLoaded, hasPhonemeData, tokens, rawMel, normMel, mel, idx,
                   attempted, failedLog, stubbed, rawOut, raised, result>>
    /\ UNCHANGED <<saved, notSynthVars>>

\* _save_audio and _display_results: torchaudio.save either writes the file
\* or raises, and _display_results may raise after the file is written;
\* synthesize_speech turns either exception into False
SaveAudio ==
    /\ pc = "save"
    /\ \E outcome \in {"ok", "_save_audio", "_display_results"} :
          /\ saved' = (outcome # "_save_audio")
          /\ raised' = (IF outcome = "ok" THEN raised ELSE outcome)
          /\ result' = ReturnValue(outcome # "ok")
    /\ pc' = "done"
    /\ UNCHANGED <<modelLoaded, hasPhonemeData, tokens, rawMel, normMel, mel, idx,
                   attempted, failedLog, stubbed, rawOut, audio, producer>>
    /\ UNCHANGED notSynthVars

Next ==
    \/ SynthesizeSpeech
    \/ Normalize
    \/ ControlLengthStep
    \/ GenerateAudio
    \/ TryStrategy
    \/ TerminalFallback
    \/ SaveAudio

Spec == Init /\ [][Next]_vars

\* ------------------------------------------- _postprocess_audio on its own
\* no request is running
SynthQuiet == SynthInit /\ modelLoaded = FALSE

\* the buffers handed to _postprocess_audio: every peak from silence to
\* above full scale, and buffers of NaN samples
PostInputs ==
    {Buffer(n, p, FALSE) : n \in 0..MaxBufLen, p \in 0..MaxPeak}
        \cup {Buffer(n, 0, TRUE) : n \in 1..MaxBufLen}

InitPost ==
    /\ SynthQuiet
    /\ TextQuiet
    /\ RecorderQuiet
    /\ DataQuiet
    /\ TrackQuiet
    /\ FrameQuiet
    /\ RngQuiet
    /\ ppIn \in PostInputs
    /\ ppOuts = << >>
    /\ ppRaised = FALSE

\* one call of _postprocess_audio, on the buffer the previous call returned
PostprocessPass ==
    /\ ~ppRaised
    /\ Len(ppOuts) < MaxPasses
    /\ LET b == IF ppOuts = << >> THEN ppIn ELSE ppOuts[Len(ppOuts)]
       IN  IF PostprocessAudioRaises(b)
           THEN ppRaised' = TRUE /\ UNCHANGED ppOuts
           ELSE ppOuts' = Append(ppOuts, PostprocessAudio(b))
                /\ UNCHANGED ppRaised
    /\ UNCHANGED <<ppIn, notPostVars>>

NextPost == PostprocessPass

SpecPost == InitPost /\ [][NextPost]_vars

\* ------------------------------- one frame of the phoneme-aware strategy
\* a frame of DEFAULT_N_MELS bins whose band means are b.low (bins 0..14),
\* b.mid (15..39) and b.high (40..); b.tilt raises the first bin of each band
\* and lowers the second by as much, which keeps the means
BandFrame(b) ==
    [j \in 1..DEFAULT_N_MELS |->
        LET level == IF j <= 15 THEN b.low ELSE IF j <= 40 THEN b.mid ELSE b.high
        IN  IF j \in {1, 16, 41} THEN level + b.tilt * FP
            ELSE IF j \in {2, 17, 42} THEN level - b.tilt * FP
            ELSE level]

\* band means from inaudible (-35) to loud; -4 is the floor of the conditioned
\* scale
BandLevels == {-35 * FP, -6 * FP, -4 * FP, 0, 3 * FP}

InitFrame ==
    /\ SynthQuiet
    /\ TextQuiet
    /\ RecorderQuiet
    /\ DataQuiet
    /\ TrackQuiet
    /\ PostQuiet
    /\ RngQuiet
    /\ fPc = "idle"
    /\ fBands \in [low : BandLevels, mid : BandLevels, high : BandLevels,
                    tilt : 0..MaxTilt]
    /\ fFrame = BandFrame(fBands)
    /\ fType = "none"
    /\ fGiven = FALSE
    /\ fAudio = NoFrameAudio

\* energy = np.mean(np.exp(frame_mel)); the frame is left silent unless
\* energy > 0.005
SkipFrame ==
    /\ fPc = "idle"
    /\ ~EnergyAbove(fFrame, DEFAULT_N_MELS, 5)
    /\ fPc' = "done"
    /\ UNCHANGED <<fBands, fFrame, fType, fGiven, fAudio, notFrameVars>>

\* phoneme_type = self._estimate_phoneme_type(frame_mel)
EstimateType ==
    /\ fPc = "idle"
    /\ EnergyAbove(fFrame, DEFAULT_N_MELS, 5)
    /\ fType' = EstimatePhonemeType(fFrame, DEFAULT_N_MELS)
    /\ fPc' = "typed"
    /\ UNCHANGED <<fBands, fFrame, fGiven, fAudio, notFrameVars>>

\* the rest of the body for any key of the table, and for a key it lacks
GivenType ==
    /\ fPc = "idle"
    /\ EnergyAbove(fFrame, DEFAULT_N_MELS, 5)
    /\ fType' \in PhonemeKeys \cup {"xx"}
    /\ fGiven' = TRUE
    /\ fPc' = "typed"
    /\ UNCHANGED <<fBands, fFrame, fAudio, notFrameVars>>

\* lookup, F0, formants, texture
SynthesizeFrame ==
    /\ fPc = "typed"
    /\ fAudio' = FrameAudio(fFrame, DEFAULT_N_MELS, fType)
    /\ fPc' = "done"
    /\ UNCHANGED <<fBands, fFrame, fType, fGiven, notFrameVars>>

NextFrame ==
    \/ SkipFrame
    \/ EstimateType
    \/ GivenType
    \/ SynthesizeFrame

SpecFrame == InitFrame /\ [][NextFrame]_vars

\* ------------------------------ two requests and the global generators
\* torch.randn_like in _control_length: called when the matrix is extended
ControlLengthDraws(nf) == nf < MIN_FRAME_LENGTH

\* np.random.random in the producing strategy: the phases of
\* _improved_vocoder, and in _japanese_phoneme_vocoder the noise of the
\* texture generator called for the category of a sounding frame (the
\* generators' own gates, -30 and -35, lie below every conditioned value)
StrategyDraws(strategy, category) ==
    \/ strategy = "improved"
    \/ /\ strategy = "japanese"
       /\ \E g \in TextureGenerators(PhonemeData(category).flags) : TextureIsRandom(g)

\* what a request is given: a short or a long model output, the strategy
\* that produces its buffer, the category of its sounding frames
RequestInputs ==
    [nf : {1, MIN_FRAME_LENGTH},
     strategy : {"japanese", "reliable", "improved"},
     category : {"a", "shi"}]

InitRng ==
    /\ SynthQuiet
    /\ TextQuiet
    /\ RecorderQuiet
    /\ DataQuiet
    /\ TrackQuiet
    /\ PostQuiet
    /\ FrameQuiet
    /\ rqIn \in [Requests -> RequestInputs]
    /\ rqPc = [r \in Requests |-> "control"]
    /\ rqDrawn = [r \in Requests |-> << >>]
    /\ rng \in [torch : 0..MaxSeed, numpy : 0..MaxSeed]
    /\ rngSeed = rng
    /\ rngUsers = [torch |-> {}, numpy |-> {}]

\* request r runs _control_length: the noise comes from torch's global
\* generator, which the draw advances
RequestControlLength(r) ==
    /\ rqPc[r] = "control"
    /\ rqPc' = [rqPc EXCEPT ![r] = "vocode"]
    /\ IF ControlLengthDraws(rqIn[r].nf)
       THEN /\ rqDrawn' = [rqDrawn EXCEPT ![r] = Append(@, <<"torch", rng.torch>>)]
            /\ rng' = [rng EXCEPT !.torch = @ + 1]
            /\ rngUsers' = [rngUsers EXCEPT !.torch = @ \cup {r}]
       ELSE UNCHANGED <<rqDrawn, rng, rngUsers>>
    /\ UNCHANGED <<rqIn, rngSeed, notRngVars>>

\* request r runs its producing strategy: phases and texture noise come from
\* numpy's global generator
RequestVocode(r) ==
    /\ rqPc[r] = "vocode"
    /\ rqPc' = [rqPc EXCEPT ![r] = "done"]
    /\ IF StrategyDraws(rqIn[r].strategy, rqIn[r].category)
       THEN /\ rqDrawn' = [rqDrawn EXCEPT ![r] = Append(@, <<"numpy", rng.numpy>>)]
            /\ rng' = [rng EXCEPT !.numpy = @ + 1]
            /\ rngUsers' = [rngUsers EXCEPT !.numpy = @ \cup {r}]
       ELSE UNCHANGED <<rqDrawn, rng, rngUsers>>
    /\ UNCHANGED <<rqIn, rngSeed, notRngVars>>

NextRng ==
    \E r \in Requests :
        \/ RequestControlLength(r)
        \/ RequestVocode(r)

SpecRng == InitRng /\ [][NextRng]_vars

\* ------------------------------- the F0 track of the harmonic-tracking
\* strategy
\* the profiles of a frame: Unvoiced has every bin at -40; Beyond has its
\* only loud bin past the first 30; a number p >= 0 has its loudest bin at p
\* (0-based) and a second, lower peak at bin 12
Unvoiced == -1
Beyond == -2
TrackKinds == {Unvoiced, Beyond, 0, 5, 7, 29}

TrackFrame(kind) ==
    [j \in 1..DEFAULT_N_MELS |->
        IF kind = Unvoiced THEN -40 * FP
        ELSE IF kind = Beyond THEN (IF j = 36 THEN 0 ELSE -40 * FP)
        ELSE IF j = kind + 1 THEN 0
        ELSE IF j = 13 THEN -5 * FP
        ELSE -10 * FP]

InitTrack ==
    /\ SynthQuiet
    /\ TextQuiet
    /\ RecorderQuiet
    /\ DataQuiet
    /\ PostQuiet
    /\ FrameQuiet
    /\ RngQuiet
    /\ \E n \in 1..MaxTrackFrames : tkKinds \in [1..n -> TrackKinds]
    /\ tkMel = Matrix(Len(tkKinds), DEFAULT_N_MELS,
                      [i \in 1..Len(tkKinds) |-> TrackFrame(tkKinds[i])])
    /\ tkF0 = << >>
    /\ tkSynth = 0
    /\ tkSounding = {}

\* one iteration of the estimation loop: f0[i] from frame i and f0[i-1]
EstimateF0 ==
    /\ Len(tkF0) < tkMel.nf
    /\ tkF0' = Append(tkF0, F0Step(tkMel, Len(tkF0) + 1,
                                   IF tkF0 = << >> THEN 0 ELSE tkF0[Len(tkF0)]))
    /\ UNCHANGED <<tkKinds, tkMel, tkSynth, tkSounding, notTrackVars>>

\* one iteration of the synthesis loop, which starts when the track is
\* complete: a frame with f0 > 0 adds its sounding harmonics
SynthesizeTrackFrame ==
    /\ Len(tkF0) = tkMel.nf
    /\ tkSynth < tkMel.nf
    /\ tkSynth' = tkSynth + 1
    /\ tkSounding' =
          IF SoundingHarmonics(tkMel.v[tkSynth + 1], tkMel.nm, tkF0[tkSynth + 1]) # {}
          THEN tkSounding \cup {tkSynth + 1}
          ELSE tkSounding
    /\ UNCHANGED <<tkKinds, tkMel, tkF0, notTrackVars>>

NextTrack ==
    \/ EstimateF0
    \/ SynthesizeTrackFrame

SpecTrack == InitTrack /\ [][NextTrack]_vars

\* ------------------------------------------------ the dataset directories
\* collect_data_files: for every audio_<n>.wav, in sorted order, the pair
\* (audio_<n>.wav, meta_path/audio_<n>.txt) when that text file exists
CollectDataFiles(audio_dir, meta_dir) ==
    LET found == [n \in FileNumbers |-> n]
        Paired(n) == audio_dir[n] # "none" /\ meta_dir[<<"audio", n>>] # "none"
    IN  [i \in 1..Len(SelectSeq(found, Paired)) |->
            LET n == SelectSeq(found, Paired)[i]
            IN  [audio |-> n, text |-> <<"audio", n>>]]

\* next_index = len(existing_files) + 1
NextIndex(audio_dir, meta_dir) == Len(CollectDataFiles(audio_dir, meta_dir)) + 1

\* a dataset as the recorder leaves it: audio files with or without their
\* meta_<n>.txt, numbered with gaps; audio_<n>.txt files may lie in the meta
\* directory as well
InitData ==
    /\ SynthQuiet
    /\ TextQuiet
    /\ RecorderQuiet
    /\ PostQuiet
    /\ FrameQuiet
    /\ RngQuiet
    /\ TrackQuiet
    /\ \E wavs \in SUBSET (1..MaxFileNumber), metas \in SUBSET (1..MaxFileNumber),
          txts \in SUBSET (1..MaxFileNumber) :
          /\ dsAudio = [n \in FileNumbers |-> IF n \in wavs THEN "old" ELSE "none"]
          /\ dsMeta = [f \in MetaNames |->
                          IF (f[1] = "meta" /\ f[2] \in metas) \/ (f[1] = "audio" /\ f[2] \in txts)
                          THEN "old" ELSE "none"]
    /\ dsPc = "start"
    /\ dsPairs = << >>
    /\ dsBefore = [audio |-> dsAudio, meta |-> dsMeta, pairs |-> << >>]
    /\ dsAdd = "none"

\* a call of collect_data_files
CollectStep ==
    /\ dsPc \in {"start", "added"}
    /\ dsPairs' = CollectDataFiles(dsAudio, dsMeta)
    /\ dsPc' = IF dsPc = "start" THEN "collected" ELSE "recollected"
    /\ UNCHANGED <<dsAudio, dsMeta, dsBefore, dsAdd, notDataVars>>

\* add_new_data: the two shutil.copy2 calls write audio_<next_index>.wav and
\* meta_<next_index>.txt over whatever is there; either may raise, which is
\* printed and ends the call
AddNewData ==
    /\ dsPc = "collected"
    /\ dsBefore' = [audio |-> dsAudio, meta |-> dsMeta, pairs |-> dsPairs]
    /\ LET next_index == NextIndex(dsAudio, dsMeta)
       IN  \E copied \in 0..2 :
             /\ dsAudio' = IF copied >= 1 THEN [dsAudio EXCEPT ![next_index] = "new"]
                           ELSE dsAudio
             /\ dsMeta' = IF copied = 2 THEN [dsMeta EXCEPT ![<<"meta", next_index>>] = "new"]
                          ELSE dsMeta
             /\ dsAdd' = IF copied = 2 THEN "ok" ELSE "failed"
    /\ dsPc' = "added"
    /\ UNCHANGED <<dsPairs, notDataVars>>

NextData ==
    \/ CollectStep
    \/ AddNewData

SpecData == InitData /\ [][NextData]_vars

\* ------------------------------------------------------ the recording tool
\* AudioRecorder.__init__
InitRecorder ==
    /\ SynthQuiet
    /\ TextQuiet
    /\ PostQuiet
    /\ FrameQuiet
    /\ RngQuiet
    /\ TrackQuiet
    /\ DataQuiet
    /\ RecorderQuiet

\* reset_recording: the flags and the data are cleared; a thread still alive
\* is told to stop and joined
ResetRecordingState ==
    [is_recording |-> FALSE,
     is_paused |-> FALSE,
     recorded_data |-> << >>,
     should_stop |-> recording_thread = "alive",
     recording_thread |-> IF recording_thread = "alive" THEN "ended" ELSE recording_thread]

ResetRecording ==
    /\ is_recording' = ResetRecordingState.is_recording
    /\ is_paused' = ResetRecordingState.is_paused
    /\ recorded_data' = ResetRecordingState.recorded_data
    /\ should_stop' = ResetRecordingState.should_stop
    /\ recording_thread' = ResetRecordingState.recording_thread
    /\ command' = "reset"
    /\ UNCHANGED <<chunks, stopped_audio, notRecorderVars>>

\* start_recording: refused while recording or when the device query raises;
\* otherwise the state is initialised and the recording thread started
StartRecording ==
    /\ ~is_recording
    /\ \E device_ok \in BOOLEAN :
          IF device_ok
          THEN /\ is_recording' = TRUE
               /\ is_paused' = FALSE
               /\ should_stop' = FALSE
               /\ recorded_data' = << >>
               /\ recording_thread' = "alive"
          ELSE UNCHANGED <<is_recording, is_paused, should_stop, recorded_data,
                           recording_thread>>
    /\ command' = "start"
    /\ UNCHANGED <<chunks, stopped_audio, notRecorderVars>>

\* pause_recording
PauseRecording ==
    /\ is_recording /\ ~is_paused
    /\ is_paused' = TRUE
    /\ command' = "pause"
    /\ UNCHANGED <<is_recording, should_stop, recorded_data, recording_thread, chunks,
                   stopped_audio, notRecorderVars>>

\* resume_recording: succeeds whenever is_paused is set
ResumeRecording ==
    /\ is_paused
    /\ is_paused' = FALSE
    /\ command' = "resume"
    /\ UNCHANGED <<is_recording, should_stop, recorded_data, recording_thread, chunks,
                   stopped_audio, notRecorderVars>>

\* stop_recording: clears both flags, joins the thread and returns
\* get_recorded_audio(), None when no chunk was kept
StopRecording ==
    /\ is_recording
    /\ is_recording' = FALSE
    /\ is_paused' = FALSE
    /\ recording_thread' = IF recording_thread = "alive" THEN "ended" ELSE recording_thread
    /\ stopped_audio' = IF recorded_data = << >> THEN "None" ELSE recorded_data
    /\ command' = "stop"
    /\ UNCHANGED <<should_stop, recorded_data, chunks, notRecorderVars>>

\* the 'r' command, handle_record_start: reset_recording first, then, the
\* recorder no longer recording, countdown and start_recording
HandleRecordStart ==
    /\ \E device_ok \in BOOLEAN :
          IF device_ok
          THEN /\ is_recording' = TRUE
               /\ is_paused' = FALSE
               /\ should_stop' = FALSE
               /\ recorded_data' = << >>
               /\ recording_thread' = "alive"
          ELSE /\ is_recording' = ResetRecordingState.is_recording
               /\ is_paused' = ResetRecordingState.is_paused
               /\ recorded_data' = ResetRecordingState.recorded_data
               /\ should_stop' = ResetRecordingState.should_stop
               /\ recording_thread' = ResetRecordingState.recording_thread
    /\ command' = "r"
    /\ UNCHANGED <<chunks, stopped_audio, notRecorderVars>>

\* audio_callback in the recording thread's stream: a chunk is kept while
\* recording and not paused
AudioCallback ==
    /\ recording_thread = "alive"
    /\ chunks < MaxChunks
    /\ chunks' = chunks + 1
    /\ recorded_data' = IF is_recording /\ ~is_paused
                        THEN Append(recorded_data, chunks + 1)
                        ELSE recorded_data
    /\ UNCHANGED <<is_recording, is_paused, should_stop, recording_thread, command, stopped_audio,
                   notRecorderVars>>

\* the stream raises in _record_audio: the except clause clears is_recording
\* and the thread ends
StreamError ==
    /\ recording_thread = "alive"
    /\ is_recording' = FALSE
    /\ recording_thread' = "ended"
    /\ UNCHANGED <<is_paused, should_stop, recorded_data, chunks, command, stopped_audio,
                   notRecorderVars>>

NextRecorder ==
    \/ ResetRecording
    \/ StartRecording
    \/ PauseRecording
    \/ ResumeRecording
    \/ StopRecording
    \/ HandleRecordStart
    \/ AudioCallback
    \/ StreamError

SpecRecorder == InitRecorder /\ [][NextRecorder]_vars

\* ------------------------------------------------- the script (TextManager)
\* the script files auto_load_text_file looks for first
FileNames == {"Japanese.txt", "script.txt"}

\* a script file, line by line: TRUE for a line with text left after strip(),
\* FALSE for a blank line
Scripts == UNION {[1..n -> BOOLEAN] : n \in 0..MaxLines}

\* the loop of load_file over enumerate(lines, 1): blank lines are skipped
\* and every entry keeps the number of its line in the file
RECURSIVE ReadTexts(_, _)
ReadTexts(lines, i) ==
    IF i > Len(lines)
    THEN << >>
    ELSE (IF lines[i]
          THEN <<[line_number |-> i, recorded |-> FALSE, audio_filename |-> 0]>>
          ELSE << >>) \o ReadTexts(lines, i + 1)

\* save_session: the position and the recorded flag of every entry, keyed by
\* its position in all_texts
SaveSession(name, index, texts) ==
    [exists |-> TRUE, filename |-> name, current_index |-> index,
     recorded_status |-> [i \in 1..Len(texts) |-> texts[i].recorded]]

\* load_session: a session written for the same file name restores
\* current_index as saved and the recorded flags of the positions that exist
LoadSession(name, index, texts) ==
    IF session_file.exists /\ session_file.filename = name
    THEN [current_index |-> session_file.current_index,
          all_texts |-> [i \in 1..Len(texts) |->
              IF i <= Len(session_file.recorded_status)
              THEN [texts[i] EXCEPT !.recorded = session_file.recorded_status[i]]
              ELSE texts[i]]]
    ELSE [current_index |-> index, all_texts |-> texts]

\* load_file: read the entries, then load_session
LoadFile(name, lines, index) == LoadSession(name, index, ReadTexts(lines, 1))

\* get_current_text returns an entry, not None
HasCurrentText ==
    /\ all_texts # << >>
    /\ 0 <= current_index /\ current_index < Len(all_texts)

\* mark_as_recorded(audio_filename, line_number) followed by next_line, as
\* _process_metadata calls them
MarkAsRecorded(texts, audio_number, line_number) ==
    LET index == line_number - 1
    IN  IF 0 <= index /\ index < Len(texts)
        THEN [texts EXCEPT ![index + 1] =
                 [@ EXCEPT !.recorded = TRUE, !.audio_filename = audio_number]]
        ELSE texts

InitText ==
    /\ SynthQuiet
    /\ PostQuiet
    /\ FrameQuiet
    /\ RngQuiet
    /\ TrackQuiet
    /\ DataQuiet
    /\ RecorderQuiet
    /\ TextQuiet

\* the tool is started: TextManager.__init__ with auto_load_text_file, which
\* loads the script file it finds, if any; data/session.json is what the
\* last run left
Construct ==
    /\ \E found \in BOOLEAN, name \in FileNames, lines \in Scripts :
          IF found
          THEN /\ filename' = name
               /\ all_texts' = LoadFile(name, lines, 0).all_texts
               /\ current_index' = LoadFile(name, lines, 0).current_index
          ELSE /\ filename' = "None"
               /\ all_texts' = << >>
               /\ current_index' = 0
    /\ UNCHANGED <<session_file, notTextVars>>

\* next_line
NextLine ==
    /\ current_index < Len(all_texts) - 1
    /\ current_index' = current_index + 1
    /\ session_file' = SaveSession(filename, current_index + 1, all_texts)
    /\ UNCHANGED <<filename, all_texts, notTextVars>>

\* previous_line
PreviousLine ==
    /\ current_index > 0
    /\ current_index' = current_index - 1
    /\ session_file' = SaveSession(filename, current_index - 1, all_texts)
    /\ UNCHANGED <<filename, all_texts, notTextVars>>

\* jump_to_line(line_number)
JumpToLine ==
    /\ \E line_number \in 0..(MaxLines + 1) :
          LET index == line_number - 1
          IN  /\ 0 <= index /\ index < Len(all_texts)
              /\ current_index' = index
              /\ session_file' = SaveSession(filename, index, all_texts)
    /\ UNCHANGED <<filename, all_texts, notTextVars>>

\* reload_file: the file, as it is on disk now, is loaded again and the
\* position kept when it is still below the number of entries
ReloadFile ==
    /\ filename # "None"
    /\ \E lines \in Scripts :
          LET loaded == LoadFile(filename, lines, current_index)
          IN  /\ all_texts' = loaded.all_texts
              /\ current_index' = IF current_index < Len(loaded.all_texts)
                                  THEN current_index
                                  ELSE 0
    /\ UNCHANGED <<filename, session_file, notTextVars>>

\* a successful stop-and-save, handle_record_stop_save: the current entry's
\* line_number names the audio file and is handed to mark_as_recorded, then
\* next_line
StopAndSave ==
    /\ HasCurrentText
    /\ LET file_number == all_texts[current_index + 1].line_number
           marked == MarkAsRecorded(all_texts, file_number, file_number)
           moves == current_index < Len(all_texts) - 1
           index == IF moves THEN current_index + 1 ELSE current_index
       IN  /\ all_texts' = marked
           /\ current_index' = index
           /\ session_file' = IF moves \/ file_number - 1 < Len(all_texts)
                              THEN SaveSession(filename, index, marked)
                              ELSE session_file
    /\ UNCHANGED <<filename, notTextVars>>

NextText ==
    \/ Construct
    \/ NextLine
    \/ PreviousLine
    \/ JumpToLine
    \/ ReloadFile
    \/ StopAndSave

SpecText == InitText /\ [][NextText]_vars

\* =================================================================== claims
Strategies == {"trained", "japanese", "reliable", "improved"}
Returned == pc \in {"save", "done"} /\ producer # "none"

\* C1: the strategies are attempted in the order fixed by the capability
\* flag (with phoneme data: trained, phoneme-aware, reliable; without:
\* phoneme-aware, reliable, harmonic-tracking); a strategy is attempted only
\* after every earlier one has failed, and none is attempted twice.
C1_StrategyOrder ==
    LET order == IF hasPhonemeData
                 THEN <<"trained", "japanese", "reliable">>
                 ELSE <<"japanese", "reliable", "improved">>
    IN  /\ Len(attempted) <= 3
        /\ \A i \in 1..Len(attempted) : attempted[i] = order[i]
        /\ \A i \in 1..(Len(attempted) - 1) :
              Len(failedLog) >= i /\ failedLog[i] = attempted[i]

C1_Witness ==
    /\ hasPhonemeData
    /\ attempted = <<"trained", "japanese", "reliable">>
    /\ failedLog = <<"trained", "japanese">>

\* C2: an exception raised by a strategy is caught and the selector moves to
\* the next strategy; the buffer returned is the post-processed output of the
\* first strategy whose call did not raise, nothing is attempted after it,
\* and no exception escapes _generate_audio.
C2_FirstSuccessReturned ==
    /\ raised # "_generate_audio"
    /\ pc = "select" => failedLog = attempted /\ idx = Len(attempted) + 1
    /\ (Returned /\ producer \in Strategies) =>
          /\ attempted = Append(failedLog, producer)
          /\ audio = PostprocessAudio(rawOut)

C2_Witness ==
    /\ Returned
    /\ ~stubbed
    /\ failedLog = <<"trained">>
    /\ producer = "japanese"
    /\ audio # rawOut

\* C3: a buffer that a strategy returns without raising but that contains
\* NaN, or is empty, is discarded: it is never the buffer the selector
\* post-processes and returns.
C3_InvalidBufferDiscarded ==
    (Returned /\ producer \in Strategies) => ~rawOut.nan /\ rawOut.len > 0

\* C4: the selector always terminates with a buffer and never raises; after
\* three failed strategies the buffer is the terminal sine of amplitude 0.1
\* with n_frames * hop_length samples, give or take one.
C4_AlwaysReturns ==
    /\ raised # "_generate_audio"
    /\ pc = "select" =>
          /\ idx \in 1..4
          /\ Len(failedLog) = idx - 1
          /\ ENABLED (TryStrategy \/ TerminalFallback)
    /\ (pc \in {"save", "done"} /\ Len(failedLog) = 3) =>
          /\ producer = "fallback"
          /\ audio.peak * 10 = AMP
          /\ ~audio.nan
          /\ audio.len - mel.nf * 256 \in {-1, 0, 1}
    /\ producer = "fallback" => Len(failedLog) = 3

C4_Witness ==
    /\ Returned
    /\ producer = "fallback"
    /\ failedLog = <<"japanese", "reliable", "improved">>
    /\ audio.len > 0

\* C5: on a frame matrix with n_frames rows of 80 mel bins every
\* non-terminal strategy returns exactly n_frames * 256 samples.
C5_StrategyLength ==
    (pc = "select" /\ mel.nm = 80) =>
        /\ JapanesePhonemeVocoder(mel).len = mel.nf * 256
        /\ ReliableVocoder(mel).len = mel.nf * 256
        /\ ImprovedVocoder(mel).len = mel.nf * 256
        /\ SimpleVocoder(mel).len = mel.nf * 256

\* C6: every buffer the selector returns from the repository's own
\* strategies or the terminal sine has all samples in [-1, 1] and none NaN,
\* also when every frame is below the strategy's energy gate.
C6_SamplesInRange ==
    (Returned /\ ~stubbed) => ~audio.nan /\ audio.peak <= AMP

\* C7: every value of the pre-conditioner's output (normalization, then
\* length control) is finite and lies in [-4, 4].
C7_OutputInScale ==
    pc = "generate" =>
        \A x \in Entries(mel) : IsFinite(x) /\ -4 * FP <= x /\ x <= 4 * FP

\* C8: before the selector is entered the matrix is length-controlled: fewer
\* than 50 frames are extended to exactly max(50, 15 * tokens) frames with the
\* original frames as an unchanged prefix, 50 or more frames are left as
\* they are, and no strategy runs on fewer than 50 frames.
C8_LengthControlled ==
    /\ pc = "generate" =>
          IF normMel.nf < 50
          THEN /\ mel.nf = (IF 15 * tokens > 50 THEN 15 * tokens ELSE 50)
               /\ mel.nm = normMel.nm
               /\ \A i \in 1..normMel.nf : mel.v[i] = normMel.v[i]
          ELSE mel = normMel
    /\ (pc = "select" \/ attempted # << >> \/ producer # "none") => mel.nf >= 50

C8_Witness ==
    /\ pc = "generate"
    /\ normMel.nf = 1
    /\ tokens * 15 > 50
    /\ mel.nf = tokens * 15

\* C9: in the pre-conditioner's output every input NaN has become 0, every
\* input +Inf has become 4 and every input -Inf has become -4.
C9_NonFiniteReplaced ==
    pc = "generate" =>
        \A i \in 1..rawMel.nf, j \in 1..rawMel.nm :
            /\ IsNaN(rawMel.v[i][j]) => mel.v[i][j] = 0
            /\ rawMel.v[i][j] = PosInf => mel.v[i][j] = 4 * FP
            /\ rawMel.v[i][j] = NegInf => mel.v[i][j] = -4 * FP

\* C10: the pre-conditioner never raises, whatever the matrix and the token
\* sequence, a matrix with zero frames included.
C10_PreconditionerNeverRaises ==
    raised \notin {"_normalize_mel_spectrogram", "_control_length"}

\* C11: _postprocess_audio maps a buffer by its peak p: above 1.0 the result
\* has peak 0.8; strictly between 0 and 0.01 the result has peak 0.5; a peak
\* of exactly 0 is returned unchanged, with no division by zero; any other
\* buffer is returned unchanged.
C11_PeakMapping ==
    (ppOuts # << >> /\ ~ppIn.nan) =>
        LET p == ppIn.peak
            out == ppOuts[1]
        IN  /\ p > AMP => (out.peak = 800 /\ ~out.nan)
            /\ (0 < p /\ p < 10) => (out.peak = 500 /\ ~out.nan)
            /\ p = 0 => out = ppIn
            /\ (10 <= p /\ p <= AMP) => out = ppIn

\* C12: post-processing is idempotent on its own output: a second pass over
\* the buffer the first pass returned takes neither scaling branch and
\* returns it unchanged.
C12_Idempotent ==
    Len(ppOuts) >= 2 => ppOuts[2] = ppOuts[1]

C12_Witness ==
    /\ Len(ppOuts) >= 2
    /\ ppIn.peak > AMP
    /\ ppOuts[1].peak = 800
    /\ ppOuts[2].peak = 800

\* C13: the classifier is a function of the three band means low, mid and
\* high alone, by the ordered rule: high above both gives 'i' when mid > low
\* and 'shi' otherwise; else low above both gives 'u' when mid < -30 and 'o'
\* otherwise; else mid above both gives 'e'; anything else, ties included,
\* gives 'a'.
C13_ClassifierRule ==
    (fType # "none" /\ ~fGiven) =>
        LET low == fBands.low
            mid == fBands.mid
            high == fBands.high
        IN  fType = IF high > mid /\ high > low
                        THEN (IF mid > low THEN "i" ELSE "shi")
                    ELSE IF low > mid /\ low > high
                        THEN (IF mid < -30 * FP THEN "u" ELSE "o")
                    ELSE IF mid > low /\ mid > high THEN "e"
                    ELSE "a"

C13_Witness ==
    /\ fPc = "typed"
    /\ ~fGiven
    /\ fBands.tilt > 0
    /\ fBands.high = fBands.mid
    /\ fBands.high > fBands.low
    /\ fType = "a"

\* C14: a frame whose low-band mean strictly exceeds both its mid-band and
\* high-band means is classified 'a' and synthesized with the formants
\* [730, 1090, 2440].
C14_LowBandIsA ==
    (fPc = "done" /\ ~fGiven /\ fType # "none"
        /\ fBands.low > fBands.mid /\ fBands.low > fBands.high) =>
        (fType = "a" /\ fAudio.formants = <<730, 1090, 2440>>)

\* C14 as the code has it: such a frame is classified 'u' when its mid-band
\* mean is below -30 and 'o' otherwise, and synthesized with the formants
\* [300, 870, 2240] or [570, 840, 2410]; 'a' is the class of frames in which
\* no band mean strictly exceeds both others.
C14_LowBandIsOorU ==
    (fPc = "done" /\ ~fGiven /\ fType # "none") =>
        /\ (fBands.low > fBands.mid /\ fBands.low > fBands.high) =>
              IF fBands.mid < -30 * FP
              THEN fType = "u" /\ fAudio.formants = <<300, 870, 2240>>
              ELSE fType = "o" /\ fAudio.formants = <<570, 840, 2410>>
        /\ fType = "a" =>
              /\ fAudio.formants = <<730, 1090, 2440>>
              /\ ~(fBands.low > fBands.mid /\ fBands.low > fBands.high)
              /\ ~(fBands.mid > fBands.low /\ fBands.mid > fBands.high)
              /\ ~(fBands.high > fBands.low /\ fBands.high > fBands.mid)

C14_Witness ==
    /\ fPc = "done"
    /\ ~fGiven
    /\ fBands.low = 3 * FP
    /\ fBands.mid = -6 * FP
    /\ fBands.high = -6 * FP
    /\ fType = "o"
    /\ fAudio.formants = <<570, 840, 2410>>

\* C20: in the phoneme-aware strategy a texture generator is called for a
\* frame only when the frame's category carries that generator's flag; at
\* most one is called per frame, the first match in the order burst,
\* fricative, nasal, breath; a category whose only articulation flag is
\* liquid or glide gets no texture.
C20_TextureByFlag ==
    (fPc = "done" /\ fType # "none") =>
        LET flags == IF fType \in PhonemeKeys THEN PhonemeEntry(fType).flags
                     ELSE PhonemeEntry("a").flags
            order == <<"burst", "fricative", "nasal", "breath">>
            carried == {i \in 1..4 : order[i] \in flags}
        IN  /\ fAudio.textures \subseteq flags
            /\ fAudio.sounding \subseteq fAudio.textures
            /\ Cardinality(fAudio.textures) <= 1
            /\ carried # {} =>
                  fAudio.textures = {order[CHOOSE i \in carried : \A k \in carried : i <= k]}
            /\ (flags # {} /\ flags \subseteq {"liquid", "glide"}) =>
                  fAudio.textures = {}

C20_Witness ==
    /\ fPc = "done"
    /\ ~fGiven
    /\ fType = "shi"
    /\ fAudio.textures = {"fricative"}
    /\ fAudio.sounding = {"fricative"}

\* C19: synthesize_speech never propagates an exception: it returns True
\* only after the audio has been generated and saved, False when any step
\* raises, and with no model loaded it returns False without running the
\* pre-conditioner, any strategy or the file writer.
C19_NeverPropagates ==
    /\ pc = "done" => result \in {"true", "false"}
    /\ result = "true" =>
          /\ pc = "done" /\ modelLoaded /\ raised = "none"
          /\ producer # "none" /\ audio.len > 0 /\ saved
    /\ raised # "none" => (pc = "done" /\ result = "false")
    /\ ~modelLoaded =>
          /\ result \in {"none", "false"}
          /\ pc = "done" => result = "false"
          /\ raised = "none"
          /\ mel = NoMatrix /\ normMel = NoMatrix
          /\ attempted = << >> /\ producer = "none" /\ audio = NoBuffer
          /\ ~saved

C19_Witness ==
    /\ pc = "done"
    /\ result = "false"
    /\ raised = "_display_results"
    /\ saved
    /\ producer = "reliable"

\* C15: for a matrix of 50 frames by 80 bins, all zero, no strategy raises,
\* every frame fails the energy and audibility gates, and the selector
\* returns exactly 12800 samples with a peak below 0.05.
C15_ZeroMatrixNearSilent ==
    (/\ Returned /\ ~stubbed /\ ~hasPhonemeData
     /\ mel.nf = 50 /\ mel.nm = DEFAULT_N_MELS
     /\ \A i \in 1..mel.nf : \A j \in 1..mel.nm : mel.v[i][j] = 0) =>
        /\ failedLog = << >>
        /\ rawOut.peak = 0
        /\ audio.len = 12800
        /\ ~audio.nan /\ audio.peak < 50

\* C16: when the matrix's mel dimension is not n_mels (80), synthesis raises
\* before any strategy produces samples; a matrix is never silently
\* transposed or read with another n_frames or n_mels.
C16_MismatchRaises ==
    /\ (mel # NoMatrix /\ mel.nm # DEFAULT_N_MELS) =>
          /\ attempted = << >> /\ producer = "none"
          /\ pc = "done" => (raised # "none" /\ result = "false")
    /\ (Returned /\ ~stubbed /\ producer \in Strategies) =>
          rawOut.len = mel.nf * DEFAULT_HOP_LENGTH

\* C17: the pipeline is deterministic: two runs on the same raw matrix,
\* token count and capability flag return identical buffers, whatever the
\* frames' categories, the producing strategy and the need for extension.
\* Two buffers made from the same input are identical exactly when the same
\* random values went into them.
C17_Deterministic ==
    ((\A r \in Requests : rqPc[r] = "done") /\ rqIn[1] = rqIn[2]
        /\ rqIn[1].strategy # "none") =>
        rqDrawn[1] = rqDrawn[2]

\* C18: two concurrent requests on one VoiceCloner share no mutable state:
\* no variable one of them writes is read or written by the other, so under
\* every interleaving a request's buffer is the one it produces when it
\* runs alone from the same starting state.
C18_NoSharedState ==
    /\ Cardinality(rngUsers.torch) <= 1
    /\ Cardinality(rngUsers.numpy) <= 1
    /\ \A r \in Requests :
          (rqPc[r] = "done" /\ rqIn[r].strategy # "none") =>
              rqDrawn[r] =
                  (IF rqIn[r].nf < MIN_FRAME_LENGTH
                   THEN << <<"torch", rngSeed.torch>> >> ELSE << >>)
                  \o (IF rqIn[r].strategy = "improved"
                         \/ (rqIn[r].strategy = "japanese" /\ rqIn[r].category = "shi")
                      THEN << <<"numpy", rngSeed.numpy>> >> ELSE << >>)

\* C21: in the strategies that synthesize harmonics the fundamental
\* frequency used for a frame that produces sound lies within [80, 400] Hz;
\* here for the phoneme-aware strategy, whose every frame past the energy
\* gate gets harmonics.
C21_F0InRange ==
    (fPc = "done" /\ fType # "none") =>
        (80 * FP <= fAudio.f0 /\ fAudio.f0 <= 400 * FP)

\* C26: the classifier returns only 'a', 'i', 'u', 'e', 'o' or 'shi', all keys
\* of the phonetic table, so for a classified frame the default lookup is
\* never taken and no texture generator but the fricative one is called.
C26_ClassifierAlphabet ==
    (fType # "none" /\ ~fGiven) =>
        /\ fType \in {"a", "i", "u", "e", "o", "shi"}
        /\ fType \in PhonemeKeys
        /\ fPc = "done" =>
              /\ fAudio.textures \subseteq {"fricative"}
              /\ fAudio.textures = {"fricative"} <=> fType = "shi"
              /\ fAudio.formants = PhonemeEntry(fType).formants

C26_Witness ==
    /\ fPc = "done"
    /\ ~fGiven
    /\ fType = "i"
    /\ fAudio.textures = {}
    /\ fAudio.formants = <<270, 2290, 3010>>

\* C25: with the capability flag set, the trained strategy fails on every
\* input, so no returned buffer is its work: the request is served by the
\* untrained phoneme-aware strategy, the reliable strategy or the terminal
\* sine (a buffer under the trained strategy's name can only come from a
\* stub put in its place).
C25_TrainedAlwaysFails ==
    (hasPhonemeData /\ attempted # << >>) =>
        /\ attempted[1] = "trained"
        /\ producer = "trained" => stubbed
        /\ ~stubbed => (failedLog # << >> /\ failedLog[1] = "trained")
        /\ Returned => producer \in {"trained", "japanese", "reliable", "fallback"}

C25_Witness ==
    /\ Returned
    /\ hasPhonemeData
    /\ ~stubbed
    /\ failedLog = <<"trained">>
    /\ producer = "japanese"
    /\ rawOut.peak > 0

\* C22: the F0 track of the harmonic-tracking strategy is built frame by
\* frame in order: a voiced frame's raw estimate is 80 + 8 * argmax of its
\* first 30 bins; when the previous frame is voiced and the raw estimate is
\* more than 50 Hz from the previous frame's smoothed F0, the frame's F0 is
\* the average of the two, otherwise the raw estimate; an unvoiced frame has
\* F0 = 0 and adds no samples.
C22_F0Track ==
    /\ \A i \in 1..Len(tkF0) :
          LET voiced == tkKinds[i] >= 0
              raw == (80 + 8 * tkKinds[i]) * FP
              prev == IF i > 1 THEN tkF0[i - 1] ELSE 0
              jump == IF raw > prev THEN raw - prev ELSE prev - raw
          IN  tkF0[i] = IF ~voiced THEN 0
                        ELSE IF prev > 0 /\ jump > 50 * FP THEN (raw + prev) \div 2
                        ELSE raw
    /\ \A i \in tkSounding : tkF0[i] > 0

C22_Witness ==
    /\ Len(tkF0) = 3
    /\ tkKinds = <<0, 29, 0>>
    /\ tkF0 = <<80 * FP, 196 * FP, 138 * FP>>
    /\ tkSounding = {1, 2, 3}

\* C23: dataset collection pairs files by number, whatever the gaps: the
\* pairs collect_data_files returns are exactly the audio_<n>.wav files
\* whose meta_<n>.txt exists, one pair each.
C23_PairsByNumber ==
    dsPc = "collected" =>
        LET matched == {n \in FileNumbers :
                           dsAudio[n] # "none" /\ dsMeta[<<"meta", n>>] # "none"}
        IN  /\ Len(dsPairs) = Cardinality(matched)
            /\ {dsPairs[i].audio : i \in 1..Len(dsPairs)} = matched
            /\ \A i \in 1..Len(dsPairs) : dsPairs[i].text = <<"meta", dsPairs[i].audio>>

\* C30: after a successful add_new_data, collect_data_files returns every
\* pair it returned before, with unchanged content, and exactly one new
\* pair; no audio or meta file that existed is overwritten.
C30_AddWithoutLoss ==
    (dsPc = "recollected" /\ dsAdd = "ok") =>
        LET before == {dsBefore.pairs[i] : i \in 1..Len(dsBefore.pairs)}
            after == {dsPairs[i] : i \in 1..Len(dsPairs)}
        IN  /\ before \subseteq after
            /\ Cardinality(after \ before) = 1
            /\ \A n \in FileNumbers :
                  dsBefore.audio[n] # "none" => dsAudio[n] = dsBefore.audio[n]
            /\ \A f \in MetaNames :
                  dsBefore.meta[f] # "none" => dsMeta[f] = dsBefore.meta[f]

\* C24: the 'r' command starts or resumes: issued while a recording is
\* paused it resumes that recording (is_recording stays true, is_paused
\* becomes false) and keeps every chunk captured before the pause.
C24_RResumes ==
    [][(command' = "r" /\ HandleRecordStart /\ is_recording /\ is_paused) =>
          /\ is_recording' /\ ~is_paused'
          /\ Len(recorded_data') >= Len(recorded_data)
          /\ SubSeq(recorded_data', 1, Len(recorded_data)) = recorded_data]_vars

\* C27: in every reachable state of AudioRecorder, under every interleaving
\* of the commands with the recording thread, is_paused implies
\* is_recording, so resume_recording never succeeds with no recording in
\* progress.
C27_PausedImpliesRecording ==
    is_paused => is_recording

\* C28: whenever TextManager holds at least one text, current_index is a
\* position of all_texts (0 <= current_index < len(all_texts)), so
\* get_current_text does not return None while texts are loaded.
C28_IndexInRange ==
    all_texts # << >> => HasCurrentText

\* C29: a successful stop-and-save marks the entry that was current when the
\* recording was saved as recorded, with the saved audio file's name, and
\* changes the recorded status of no other entry.
C29_MarksCurrentEntry ==
    [][StopAndSave =>
          /\ Len(all_texts') = Len(all_texts)
          /\ \A i \in 1..Len(all_texts) :
                IF i = current_index + 1
                THEN /\ all_texts'[i].recorded
                     /\ all_texts'[i].audio_filename = all_texts[i].line_number
                ELSE all_texts'[i].recorded = all_texts[i].recorded]_vars

====
